---- MODULE Spec2Model ----
(***************************************************************************)
(* Stock-Analyzer (main.py): the poll loop of main(), the window buffer    *)
(* analyzed_stocks with its interval timer last_comparison_time, and the   *)
(* helpers the loop calls (get_all_symbols, get_quote, truncate_text,      *)
(* analyze_stock_with_openai, compare_stocks_with_openai).                 *)
(*                                                                         *)
(* Time is time.time() in whole seconds.  Text is a sequence of Unicode    *)
(* code points (ord of each character).  A call that can raise returns a   *)
(* record                                                                  *)
(* [exc |-> name of the exception or "none", val |-> the return value].    *)
(***************************************************************************)
EXTENDS Integers, Sequences, FiniteSets, TLC

VARIABLES
    pc,                     \* "start" | "loop" | "terminated"
    clock,                  \* the value time.time() returns next
    all_symbols,            \* main(): all_symbols
    analyzed_stocks,        \* main(): analyzed_stocks, the window buffer
    last_comparison_time,   \* main(): last_comparison_time
    ticks,                  \* iterations of the while loop begun so far
    window,                 \* history: entries appended since the last clear
    tick,                   \* history: what the latest iteration did
    text, max_length, result, tpc   \* one call of truncate_text

vars == <<pc, clock, all_symbols, analyzed_stocks, last_comparison_time,
          ticks, window, tick, text, max_length, result, tpc>>

mainVars == <<pc, clock, all_symbols, analyzed_stocks, last_comparison_time,
              ticks, window, tick>>

truncVars == <<text, max_length, result, tpc>>

----------------------------------------------------------------------------
(* Bounds of the exploration *)

MaxTicks == 4

MaxLen == 3

(* Program constants *)

comparison_interval == 60

tick_period == 1

error_pause == 1

compare_max_length == 200

----------------------------------------------------------------------------
(* Text *)

\* the code points str.strip() removes: those with str.isspace() true
Whitespace ==
    (9..13) \cup (28..32) \cup {133, 160, 5760} \cup (8192..8202)
        \cup {8232, 8233, 8239, 8287, 12288}

RECURSIVE lstrip(_)
lstrip(s) ==
    IF s # <<>> /\ Head(s) \in Whitespace THEN lstrip(Tail(s)) ELSE s

RECURSIVE rstrip(_)
rstrip(s) ==
    IF s # <<>> /\ s[Len(s)] \in Whitespace
    THEN rstrip(SubSeq(s, 1, Len(s) - 1))
    ELSE s

strip(s) == rstrip(lstrip(s))

\* "..."
Ellipsis == <<46, 46, 46>>

\* text[:n]; a negative n counts from the end
Prefix(s, n) ==
    IF n >= 0
    THEN SubSeq(s, 1, IF n < Len(s) THEN n ELSE Len(s))
    ELSE SubSeq(s, 1, IF Len(s) + n > 0 THEN Len(s) + n ELSE 0)

truncate_text(s, n) ==
    IF Len(s) <= n THEN s ELSE Prefix(s, n) \o Ellipsis

\* "OpenAI call failed"
OpenAICallFailed ==
    <<79, 112, 101, 110, 65, 73, 32, 99, 97, 108, 108, 32, 102, 97, 105, 108, 101, 100>>

\* "OpenAI summary call failed"
OpenAISummaryCallFailed ==
    <<79, 112, 101, 110, 65, 73, 32, 115, 117, 109, 109, 97, 114, 121,
      32, 99, 97, 108, 108, 32, 102, 97, 105, 108, 101, 100>>

----------------------------------------------------------------------------
(* Results of calls *)

Return(v) == [exc |-> "none", val |-> v]

Raise(e) == [exc |-> e, val |-> <<>>]

Raised(r) == r.exc # "none"

----------------------------------------------------------------------------
(* The two providers, as the program sees them *)

\* requests.get(url) followed by raise_for_status() and json()
HttpJson(resp) ==
    IF resp.net # "ok" THEN Raise(resp.net)
    ELSE IF resp.status >= 400 /\ resp.status < 600 THEN Raise("HTTPError")
    ELSE IF ~resp.parsable THEN Raise("JSONDecodeError")
    ELSE Return(resp.data)

HasSymbol(item) == "symbol" \in DOMAIN item

get_all_symbols(resp) ==
    LET r == HttpJson(resp) IN
    IF Raised(r) THEN r
    ELSE LET kept == SelectSeq(r.val, HasSymbol)
         IN  Return([i \in 1..Len(kept) |-> kept[i].symbol])

get_quote(symbol, resp) == HttpJson(resp)

QuoteFields == {"c", "h", "l", "o", "pc", "t"}

\* openai.ChatCompletion.create(...) and response['choices'][0]['message']['content']
ChatCompletion(api) ==
    IF api.error THEN Raise("OpenAIError") ELSE Return(api.content)

\* the prompt f-string reads all six fields before the try block is entered
ProviderCalled(quote) == QuoteFields \subseteq DOMAIN quote

analyze_reraises(symbol, quote, api) ==
    IF ~ProviderCalled(quote) THEN Raise("KeyError")
    ELSE LET r == ChatCompletion(api) IN
         IF Raised(r) THEN r
         ELSE Return(strip(r.val))

analyze_stock_with_openai(symbol, quote, api) ==
    IF ~ProviderCalled(quote) THEN Raise("KeyError")
    ELSE LET r == ChatCompletion(api) IN
         IF Raised(r) THEN Return(OpenAICallFailed)
         ELSE Return(strip(r.val))

PromptItem(item) ==
    [symbol   |-> item.symbol,
     price    |-> item.quote.c,
     analysis |-> truncate_text(item.analysis, compare_max_length)]

HasPrice(item) == "c" \in DOMAIN item.quote

PromptList(stocks) == [i \in 1..Len(stocks) |-> PromptItem(stocks[i])]

compare_reraises(stocks, api) ==
    IF \E i \in 1..Len(stocks) : ~HasPrice(stocks[i])
    THEN [exc |-> "KeyError", val |-> <<>>, prompt_list |-> <<>>]
    ELSE LET r == ChatCompletion(api) IN
         [exc |-> r.exc,
          val |-> IF Raised(r) THEN <<>> ELSE strip(r.val),
          prompt_list |-> PromptList(stocks)]

compare_stocks_with_openai(stocks, api) ==
    IF \E i \in 1..Len(stocks) : ~HasPrice(stocks[i])
    THEN [exc |-> "KeyError", val |-> <<>>, prompt_list |-> <<>>]
    ELSE LET r == ChatCompletion(api) IN
         [exc |-> "none",
          val |-> IF Raised(r) THEN OpenAISummaryCallFailed ELSE strip(r.val),
          prompt_list |-> PromptList(stocks)]

----------------------------------------------------------------------------
(* Inputs: what the providers answer and how long they take *)

FullQuote == [c |-> 150, h |-> 155, l |-> 149, o |-> 151, pc |-> 148, t |-> 1700]

ErrorBody == [error |-> "no access"]

Http(net, status, parsable, data) ==
    [net |-> net, status |-> status, parsable |-> parsable, data |-> data]

SymbolResponses ==
    { Http("ok", 200, TRUE, <<[symbol |-> "AAPL"], [description |-> "unlisted"],
                              [symbol |-> "MSFT"]>>),
      Http("ok", 200, TRUE, <<>>),
      Http("ok", 401, TRUE, <<>>),
      Http("ConnectionError", 0, FALSE, <<>>) }

QuoteResponses ==
    { Http("ok", 200, TRUE, FullQuote),
      Http("ok", 200, TRUE, ErrorBody),
      Http("ok", 200, FALSE, ErrorBody),
      Http("ok", 429, TRUE, ErrorBody),
      Http("ConnectionError", 0, FALSE, ErrorBody),
      Http("Timeout", 0, FALSE, ErrorBody) }

Completions ==
    { [error |-> TRUE,  content |-> <<>>],
      \* "\xa0Hold\x0b\n"
      [error |-> FALSE, content |-> <<160, 72, 111, 108, 100, 11, 10>>] }

\* seconds a quote fetch plus analysis may take
WorkLatencies == {0, comparison_interval - 3}

\* seconds between the read of the entry's timestamp and the read of now
ReadGaps == {0, 1}

\* seconds the comparison call may take
CompareLatencies == {0, comparison_interval}

----------------------------------------------------------------------------
(* The body of the while loop, piece by piece *)

\* now: the last value of time.time() the iteration compared or would have
\* compared (loop_start when it never reached line 177)
NoTick ==
    [kind |-> "none", exc |-> "none", loop_start |-> 0, now |-> 0,
     last_before |-> 0, len_before |-> 0, entry |-> <<>>,
     analysis_error |-> FALSE, compare_error |-> FALSE,
     compared |-> <<>>, prompt_list |-> <<>>, best_pick |-> <<>>,
     window |-> <<>>, calls |-> <<>>]

\* except requests.HTTPError
Caught(exc) == exc = "HTTPError"

QuoteErrorHandler_resets_timer(stocks, last, t) ==
    [analyzed_stocks |-> stocks, last_comparison_time |-> t]

\* the except block: print, sleep, continue
QuoteErrorHandler(stocks, last, t) ==
    [analyzed_stocks |-> stocks, last_comparison_time |-> last]

Entry(symbol, quote, analysis, t) ==
    [symbol |-> symbol, quote |-> quote, analysis |-> analysis, timestamp |-> t]

AppendEntry_prepend(stocks, e) == <<e>> \o stocks

AppendEntry_drop(stocks, e) == stocks

AppendEntry(stocks, e) == Append(stocks, e)

FlushDue_strict(now, last) == now - last > comparison_interval

FlushDue(now, last) == now - last >= comparison_interval

Flush_keeps_buffer(stocks, last, now) ==
    [analyzed_stocks |-> stocks, last_comparison_time |-> now]

Flush_next_deadline(stocks, last, now) ==
    [analyzed_stocks |-> <<>>, last_comparison_time |-> now + comparison_interval]

\* analyzed_stocks.clear(); last_comparison_time = now
Flush(stocks, last, now) ==
    [analyzed_stocks |-> <<>>, last_comparison_time |-> now]

Max(a, b) == IF a >= b THEN a ELSE b

\* time.sleep(max(0, 1 - elapsed))
AfterSleep(t, loop_start) == t + Max(0, tick_period - (t - loop_start))

InLoop == pc = "loop" /\ ticks < MaxTicks

Begin(kind) ==
    [NoTick EXCEPT !.kind = kind, !.loop_start = clock, !.now = clock,
                   !.last_before = last_comparison_time,
                   !.len_before = Len(analyzed_stocks)]

----------------------------------------------------------------------------
(* main() *)

IdleTruncate ==
    text = <<>> /\ max_length = 0 /\ result = <<>> /\ tpc = "idle"

Init ==
    /\ pc = "start"
    /\ clock = 0
    /\ all_symbols = <<>>
    /\ analyzed_stocks = <<>>
    /\ last_comparison_time = 0
    /\ ticks = 0
    /\ window = <<>>
    /\ tick = NoTick
    /\ IdleTruncate

\* get_all_symbols() raises: main() never reaches the loop
StartupFails(resp) ==
    /\ pc = "start"
    /\ Raised(get_all_symbols(resp))
    /\ pc' = "terminated"
    /\ tick' = [NoTick EXCEPT !.kind = "startup_failed",
                              !.exc = get_all_symbols(resp).exc,
                              !.calls = <<"get_all_symbols">>]
    /\ UNCHANGED <<clock, all_symbols, analyzed_stocks, last_comparison_time,
                   ticks, window>>
    /\ UNCHANGED truncVars

Startup(resp) ==
    /\ pc = "start"
    /\ ~Raised(get_all_symbols(resp))
    /\ all_symbols' = get_all_symbols(resp).val
    /\ analyzed_stocks' = <<>>
    /\ last_comparison_time' = clock
    /\ pc' = "loop"
    /\ UNCHANGED <<clock, ticks, window, tick>>
    /\ UNCHANGED truncVars

\* random.choice([]) raises IndexError
TickChoiceRaises ==
    /\ InLoop
    /\ all_symbols = <<>>
    /\ pc' = "terminated"
    /\ ticks' = ticks + 1
    /\ tick' = [Begin("choice_raised") EXCEPT !.exc = "IndexError"]
    /\ UNCHANGED <<clock, all_symbols, analyzed_stocks, last_comparison_time,
                   window>>
    /\ UNCHANGED truncVars

\* get_quote raises requests.HTTPError: report, sleep(1), continue
TickQuoteHTTPError(i, resp, d) ==
    LET q == get_quote(all_symbols[i], resp)
        h == QuoteErrorHandler(analyzed_stocks, last_comparison_time, clock + d)
    IN  /\ InLoop
        /\ Raised(q) /\ Caught(q.exc)
        /\ analyzed_stocks' = h.analyzed_stocks
        /\ last_comparison_time' = h.last_comparison_time
        /\ clock' = clock + d + error_pause
        /\ ticks' = ticks + 1
        /\ tick' = [Begin("quote_http_error") EXCEPT
                       !.exc = q.exc,
                       !.calls = <<"get_quote">>]
        /\ UNCHANGED <<pc, all_symbols, window>>
        /\ UNCHANGED truncVars

\* get_quote raises anything else: nothing catches it
TickQuoteRaises(i, resp, d) ==
    LET q == get_quote(all_symbols[i], resp)
    IN  /\ InLoop
        /\ Raised(q) /\ ~Caught(q.exc)
        /\ pc' = "terminated"
        /\ clock' = clock + d
        /\ ticks' = ticks + 1
        /\ tick' = [Begin("quote_raised") EXCEPT
                       !.exc = q.exc,
                       !.calls = <<"get_quote">>]
        /\ UNCHANGED <<all_symbols, analyzed_stocks, last_comparison_time,
                       window>>
        /\ UNCHANGED truncVars

\* the prompt of analyze_stock_with_openai raises (a quote field is missing)
TickAnalyzeRaises(i, resp, d, api) ==
    LET q == get_quote(all_symbols[i], resp)
        a == analyze_stock_with_openai(all_symbols[i], q.val, api)
    IN  /\ InLoop
        /\ ~Raised(q)
        /\ Raised(a)
        /\ pc' = "terminated"
        /\ clock' = clock + d
        /\ ticks' = ticks + 1
        /\ tick' = [Begin("analyze_raised") EXCEPT
                       !.exc = a.exc,
                       !.analysis_error = ProviderCalled(q.val) /\ api.error,
                       !.calls = <<"get_quote", "analyze_stock_with_openai">>]
        /\ UNCHANGED <<all_symbols, analyzed_stocks, last_comparison_time,
                       window>>
        /\ UNCHANGED truncVars

\* quote fetched and analysed, entry appended, interval not yet elapsed
TickAppend(i, resp, d, api, gap) ==
    LET q      == get_quote(all_symbols[i], resp)
        a      == analyze_stock_with_openai(all_symbols[i], q.val, api)
        e      == Entry(all_symbols[i], q.val, a.val, clock + d)
        stocks == AppendEntry(analyzed_stocks, e)
        now    == clock + d + gap
    IN  /\ InLoop
        /\ ~Raised(q)
        /\ ~Raised(a)
        /\ ~FlushDue(now, last_comparison_time)
        /\ analyzed_stocks' = stocks
        /\ window' = Append(window, e)
        /\ clock' = AfterSleep(now, clock)
        /\ ticks' = ticks + 1
        /\ tick' = [Begin("appended") EXCEPT
                       !.now = now, !.entry = <<e>>,
                       !.analysis_error = api.error,
                       !.calls = <<"get_quote", "analyze_stock_with_openai">>]
        /\ UNCHANGED <<pc, all_symbols, last_comparison_time>>
        /\ UNCHANGED truncVars

\* quote fetched and analysed, entry appended, interval elapsed: compare,
\* clear, reset the timer
TickFlush(i, resp, d, api, gap, capi, dc) ==
    LET q      == get_quote(all_symbols[i], resp)
        a      == analyze_stock_with_openai(all_symbols[i], q.val, api)
        e      == Entry(all_symbols[i], q.val, a.val, clock + d)
        stocks == AppendEntry(analyzed_stocks, e)
        now    == clock + d + gap
        cmp    == compare_stocks_with_openai(stocks, capi)
        f      == Flush(stocks, last_comparison_time, now)
        t      == [Begin("flushed") EXCEPT
                       !.now = now, !.entry = <<e>>,
                       !.analysis_error = api.error,
                       !.compare_error = capi.error,
                       !.compared = stocks,
                       !.window = Append(window, e),
                       !.calls = <<"get_quote", "analyze_stock_with_openai",
                                   "compare_stocks_with_openai">>]
    IN  /\ InLoop
        /\ ~Raised(q)
        /\ ~Raised(a)
        /\ FlushDue(now, last_comparison_time)
        /\ ticks' = ticks + 1
        /\ UNCHANGED all_symbols
        /\ UNCHANGED truncVars
        /\ IF Raised(cmp)
           THEN /\ pc' = "terminated"
                /\ analyzed_stocks' = stocks
                /\ window' = Append(window, e)
                /\ clock' = now + dc
                /\ tick' = [t EXCEPT !.kind = "compare_raised", !.exc = cmp.exc]
                /\ UNCHANGED last_comparison_time
           ELSE /\ analyzed_stocks' = f.analyzed_stocks
                /\ last_comparison_time' = f.last_comparison_time
                /\ window' = <<>>
                /\ clock' = AfterSleep(now + dc, clock)
                /\ tick' = [t EXCEPT !.prompt_list = cmp.prompt_list,
                                     !.best_pick = cmp.val]
                /\ UNCHANGED pc

Next ==
    \/ \E resp \in SymbolResponses : StartupFails(resp)
    \/ \E resp \in SymbolResponses : Startup(resp)
    \/ TickChoiceRaises
    \/ \E i \in 1..Len(all_symbols), resp \in QuoteResponses, d \in WorkLatencies :
          TickQuoteHTTPError(i, resp, d)
    \/ \E i \in 1..Len(all_symbols), resp \in QuoteResponses, d \in WorkLatencies :
          TickQuoteRaises(i, resp, d)
    \/ \E i \in 1..Len(all_symbols), resp \in QuoteResponses, d \in WorkLatencies,
          api \in Completions :
          TickAnalyzeRaises(i, resp, d, api)
    \/ \E i \in 1..Len(all_symbols), resp \in QuoteResponses, d \in WorkLatencies,
          api \in Completions, gap \in ReadGaps :
          TickAppend(i, resp, d, api, gap)
    \/ \E i \in 1..Len(all_symbols), resp \in QuoteResponses, d \in WorkLatencies,
          api \in Completions, gap \in ReadGaps, capi \in Completions,
          dc \in CompareLatencies :
          TickFlush(i, resp, d, api, gap, capi, dc)

Spec == Init /\ [][Next]_vars

----------------------------------------------------------------------------
(* truncate_text on its own *)

\* "a", "b"
Alphabet == {97, 98}

Texts == UNION { [1..n -> Alphabet] : n \in 0..MaxLen }

TruncInit ==
    /\ pc = "start"
    /\ clock = 0
    /\ all_symbols = <<>>
    /\ analyzed_stocks = <<>>
    /\ last_comparison_time = 0
    /\ ticks = 0
    /\ window = <<>>
    /\ tick = NoTick
    /\ text \in Texts
    /\ max_length \in 0..(MaxLen + 1)
    /\ result = <<>>
    /\ tpc = "ready"

Truncate ==
    /\ tpc = "ready"
    /\ result' = truncate_text(text, max_length)
    /\ tpc' = "done"
    /\ UNCHANGED <<text, max_length>>
    /\ UNCHANGED mainVars

TruncNext == Truncate

TruncSpec == TruncInit /\ [][TruncNext]_vars

----------------------------------------------------------------------------
(* Properties *)

CompareCalls ==
    Cardinality({k \in DOMAIN tick.calls :
                    tick.calls[k] = "compare_stocks_with_openai"})

\* the iteration ran the comparison, cleared the buffer and reset the timer
DidFlush ==
    /\ CompareCalls = 1
    /\ analyzed_stocks = <<>>
    /\ last_comparison_time = tick.now

\* the iteration ran no comparison and left the timer alone
DidNotFlush ==
    /\ CompareCalls = 0
    /\ last_comparison_time = tick.last_before

IntervalElapsed == tick.now - tick.last_before >= comparison_interval

ElapsedAtStart == tick.loop_start - tick.last_before >= comparison_interval

Completed == tick.kind \in {"quote_http_error", "appended", "flushed"}

Analysed == tick.kind \in {"appended", "flushed"}

Timestamps(stocks) == [k \in 1..Len(stocks) |-> stocks[k].timestamp]

\* C1 as stated: every iteration, one whose quote fetch failed included,
\* flushes if and only if the time it reads is at least the interval past
\* last_comparison_time.
C1_FlushIffElapsedInEveryTick ==
    Completed => (DidFlush <=> IntervalElapsed)

\* C1 amended: an iteration that fetched and analysed a quote flushes if and
\* only if now - last_comparison_time >= comparison_interval (at exactly the
\* interval it does, below it it does not); an iteration whose quote fetch
\* raised HTTPError never flushes.
C1_FlushIffElapsedAfterAppend ==
    /\ Analysed /\ IntervalElapsed => DidFlush
    /\ Analysed /\ ~IntervalElapsed =>
          DidNotFlush /\ Len(analyzed_stocks) = tick.len_before + 1
    /\ tick.kind = "quote_http_error" =>
          DidNotFlush /\ Len(analyzed_stocks) = tick.len_before

C1_FlushAtExactInterval ==
    /\ tick.kind = "flushed"
    /\ tick.now - tick.last_before = comparison_interval
    /\ DidFlush

\* C2: the buffer is empty at the end of every iteration that flushed, and
\* one longer than at its start at the end of every iteration that fetched a
\* quote and did not flush.
C2_BufferLength ==
    /\ tick.kind = "flushed" => Len(analyzed_stocks) = 0
    /\ tick.kind = "appended" => Len(analyzed_stocks) = tick.len_before + 1

C2_FlushedAfterGrowth ==
    /\ tick.kind = "flushed"
    /\ tick.len_before >= 2
    /\ Len(analyzed_stocks) = 0

\* C3: an iteration whose get_quote raised leaves analyzed_stocks and
\* last_comparison_time as they were and calls neither the analysis nor the
\* comparison.
C3_QuoteFailureLeavesWindow ==
    [][ (ticks' # ticks /\ tick'.kind \in {"quote_http_error", "quote_raised"})
          => /\ analyzed_stocks' = analyzed_stocks
             /\ last_comparison_time' = last_comparison_time
             /\ tick'.calls = <<"get_quote">> ]_vars

C3_FailedFetchWithFullWindow ==
    /\ tick.kind = "quote_http_error"
    /\ ElapsedAtStart
    /\ Len(analyzed_stocks) >= 1

\* C4: no failure of the quote fetch, the analysis or the comparison inside an
\* iteration ends the loop.
C4_TickFailureKeepsLooping ==
    tick.calls # <<>> /\ tick.kind # "startup_failed" => pc = "loop"

\* C5: when the analysis provider fails on a fetched quote, the iteration
\* appends exactly one entry whose analysis is the sentinel and makes the
\* flush decision as usual.
C5_AnalysisFailureStillAppends ==
    tick.analysis_error =>
        /\ Analysed
        /\ Len(tick.entry) = 1
        /\ tick.entry[1].analysis = OpenAICallFailed
        /\ tick.kind = "appended" =>
              /\ Len(analyzed_stocks) = tick.len_before + 1
              /\ analyzed_stocks[Len(analyzed_stocks)] = tick.entry[1]
              /\ ~IntervalElapsed
        /\ tick.kind = "flushed" =>
              /\ Len(tick.compared) = tick.len_before + 1
              /\ tick.compared[Len(tick.compared)] = tick.entry[1]
              /\ IntervalElapsed

C5_SentinelEntryBuffered ==
    /\ tick.analysis_error
    /\ tick.kind = "appended"
    /\ tick.len_before >= 1
    /\ analyzed_stocks[Len(analyzed_stocks)].analysis = OpenAICallFailed

\* C6: when the comparison provider fails during a flush, the result is the
\* summary sentinel, the buffer is cleared, the timer is set to now, the loop
\* goes on and the comparison was called once.
C6_CompareFailureStillFlushes ==
    tick.compare_error =>
        /\ tick.kind = "flushed"
        /\ pc = "loop"
        /\ tick.best_pick = OpenAISummaryCallFailed
        /\ DidFlush

C6_FailedCompareFlushed ==
    /\ tick.compare_error
    /\ tick.len_before >= 1
    /\ tick.best_pick = OpenAISummaryCallFailed
    /\ analyzed_stocks = <<>>

\* C7: every flush hands the comparison exactly the entries appended since
\* the previous clear, in insertion order, the triggering entry last; the
\* prompt lists them in the same order.
C7_FlushComparesWholeWindow ==
    tick.kind = "flushed" =>
        /\ tick.compared = tick.window
        /\ tick.compared[Len(tick.compared)] = tick.entry[1]
        /\ Len(tick.prompt_list) = Len(tick.window)
        /\ \A k \in 1..Len(tick.window) :
              tick.prompt_list[k].symbol = tick.window[k].symbol
        /\ analyzed_stocks = <<>>

C7_FourEntriesAtSixty ==
    /\ tick.kind = "flushed"
    /\ tick.last_before = 0
    /\ Timestamps(tick.compared) = <<0, 1, 2, comparison_interval>>
    /\ Len(tick.prompt_list) = 4

\* C8 as stated: an iteration that starts with an empty buffer and the
\* interval elapsed calls the comparison with an empty list, clears the
\* buffer and resets the timer.
C8_EmptyWindowFlushesEmptyList ==
    Completed /\ tick.len_before = 0 /\ ElapsedAtStart =>
        /\ CompareCalls = 1
        /\ tick.compared = <<>>
        /\ DidFlush

\* C8 amended: the comparison is never called with an empty list; an
\* iteration that starts with an empty buffer and the interval elapsed does
\* nothing to the window if its quote fetch raised HTTPError, and otherwise
\* flushes exactly the one entry it appended, whatever the comparison returns.
C8_EmptyWindowFlushesOwnEntry ==
    /\ CompareCalls > 0 => Len(tick.compared) >= 1
    /\ tick.len_before = 0 /\ ElapsedAtStart =>
          /\ tick.kind = "quote_http_error" =>
                DidNotFlush /\ analyzed_stocks = <<>>
          /\ Analysed =>
                /\ tick.kind = "flushed"
                /\ tick.compared = tick.entry
                /\ Len(tick.entry) = 1
                /\ DidFlush

C8_LateFlushOfSingleEntry ==
    /\ tick.kind = "flushed"
    /\ tick.len_before = 0
    /\ ElapsedAtStart
    /\ tick.compare_error
    /\ Len(tick.compared) = 1

\* C9: every buffered entry was captured at or after last_comparison_time.
C9_EntriesSinceLastReset ==
    \A k \in 1..Len(analyzed_stocks) :
        analyzed_stocks[k].timestamp >= last_comparison_time

C9_EntryAfterReset ==
    /\ last_comparison_time > 0
    /\ Len(analyzed_stocks) >= 1
    /\ tick.kind = "appended"

\* C10: truncate_text returns at most max_length characters, and the text
\* itself when it is no longer than max_length.
C10_TruncateWithinBudget ==
    tpc = "done" =>
        /\ Len(result) <= max_length
        /\ Len(text) <= max_length => result = text

====
